---- MODULE Spec2Model ----
(***************************************************************************)
(* A model of the KT0915 register driver (src/KT0915.cpp).                 *)
(*                                                                         *)
(* The driver object holds the receiver state (mode, frequency, step, band *)
(* limits, dial-mode flag, reset pin, bus address).  The chip is a file of *)
(* 16-bit registers behind a two-wire bus; `regs` holds the registers the  *)
(* driver reads back.  Every public method is one action; the bus, pin and *)
(* delay calls of the most recent method are kept in `log`, in the order   *)
(* they were issued.                                                       *)
(*                                                                         *)
(* uint32_t values are pairs <<high 16 bits, low 16 bits>>, so that the    *)
(* 32-bit wrap-around of the source is kept exactly.                       *)
(***************************************************************************)
EXTENDS Integers, Sequences, FiniteSets, TLC

VARIABLES
    deviceAddress,      \* int      this->deviceAddress
    resetPin,           \* int      this->resetPin
    currentMode,        \* uint8_t  this->currentMode
    currentFrequency,   \* uint32_t this->currentFrequency
    currentStep,        \* uint16_t this->currentStep
    minimumFrequency,   \* uint32_t this->minimumFrequency
    maximumFrequency,   \* uint32_t this->maximumFrequency
    currentDialMode,    \* uint8_t  this->currentDialMode
    regs,               \* the chip: register address -> 16-bit content
    log,                \* bus, pin and delay calls of the last method call
    call,               \* the last method call: [op, args] (getFrequency,
                        \* which changes nothing, is not recorded here)
    result,             \* what was returned since then: [op, value]
    moves               \* frequencyUp/Down calls since the last absolute tune

vars == <<deviceAddress, resetPin, currentMode, currentFrequency, currentStep,
          minimumFrequency, maximumFrequency, currentDialMode, regs, log,
          call, result, moves>>

---------------------------------------------------------------------------
(* Fixed-width integers                                                    *)

Pow2(n) == 2 ^ n

\* frequencyUp/frequencyDown calls explored after each absolute tune
MaxMoves == 2

W16 == 65536

Byte == 256

\* uint32_t as <<high half, low half>>
U32(n) == <<n \div W16, n % W16>>

U32Max == <<W16 - 1, W16 - 1>>

\* uint32_t + uint16_t (the step is promoted), modulo 2^32
U32AddStep(a, s) ==
    LET lo == a[2] + s
    IN  <<(a[1] + (lo \div W16)) % W16, lo % W16>>

\* uint32_t - uint16_t, modulo 2^32
U32SubStep(a, s) ==
    IF a[2] >= s THEN <<a[1], a[2] - s>>
                 ELSE <<(a[1] + W16 - 1) % W16, a[2] + W16 - s>>

\* uint32_t - uint32_t, modulo 2^32
U32Sub(a, b) ==
    LET borrow == IF a[2] >= b[2] THEN 0 ELSE 1
        lo     == IF a[2] >= b[2] THEN a[2] - b[2] ELSE a[2] + W16 - b[2]
    IN  <<(a[1] + W16 - b[1] - borrow) % W16, lo>>

U32Lt(a, b) == a[1] < b[1] \/ (a[1] = b[1] /\ a[2] < b[2])

U32Gt(a, b) == U32Lt(b, a)

U32Le(a, b) == ~U32Lt(b, a)

\* uint32_t / d for 0 < d < 2^16: long division over the four bytes
U32Div(a, d) ==
    LET b3 == a[1] \div Byte
        b2 == a[1] % Byte
        b1 == a[2] \div Byte
        b0 == a[2] % Byte
        q3 == b3 \div d
        t2 == (b3 % d) * Byte + b2
        q2 == t2 \div d
        t1 == (t2 % d) * Byte + b1
        q1 == t1 \div d
        t0 == (t1 % d) * Byte + b0
        q0 == t0 \div d
    IN  <<q3 * Byte + q2, q1 * Byte + q0>>

---------------------------------------------------------------------------
(* Register map and bit-field layouts (declared in KT0915.h)               *)

KT0915_I2C_ADDRESS == 53    \* 0x35

REG_TUNE        == 3        \* 0x03
REG_AMSYSCFG    == 22       \* 0x16
REG_AMCHAN      == 23       \* 0x17
REG_GPIOCFG     == 29       \* 0x1D
REG_USERSTARTCH == 47       \* 0x2F
REG_USERGUARD   == 48       \* 0x30
REG_USERCHANNUM == 49       \* 0x31

AllRegisters == {REG_TUNE, REG_AMSYSCFG, REG_AMCHAN, REG_GPIOCFG,
                 REG_USERSTARTCH, REG_USERGUARD, REG_USERCHANNUM}

\* the registers the driver reads back; `regs` holds these, a write to any
\* other register is seen in `log` only
Registers == {REG_AMSYSCFG, REG_GPIOCFG}

MODE_FM == 0

MODE_AM == 1

DIAL_MODE_OFF == 0

DIAL_MODE_ON == 1

\* pinMode / digitalWrite arguments
OUTPUT == 1

LOW == 0

HIGH == 1

\* a bit-field is <<position of its lowest bit, width>> within the 16-bit raw
\* kt09xx_amsyscfg
AM_FM    == <<15, 1>>
USERBAND == <<14, 1>>
RCLK_EN  == <<12, 1>>
REFCLK   == <<8, 4>>
\* kt09xx_gpiocfg
GPIO1 == <<0, 2>>
GPIO2 == <<2, 2>>
\* kt09xx_amchan
AMTUNE == <<15, 1>>
AMCHAN == <<0, 15>>
\* kt09xx_tune
FMTUNE == <<15, 1>>
FMCHAN == <<0, 12>>
\* kt09xx_userstartch, kt09xx_userguard, kt09xx_userchannum
USER_START_CHAN == <<0, 15>>
USER_GUARD      == <<0, 9>>
USER_CHAN_NUM   == <<0, 12>>

\* reg.refined.F read through the union
Field(raw, f) == (raw \div Pow2(f[1])) % Pow2(f[2])

\* reg.refined.F = v : the field keeps the low bits of v, the other bits of
\* raw stay as they were
SetField(raw, f, v) ==
    raw - Field(raw, f) * Pow2(f[1]) + (v % Pow2(f[2])) * Pow2(f[1])

---------------------------------------------------------------------------
(* The chip and the host services                                          *)

\* one call to Wire / GPIO / delay, as it would appear in a transcript
Ev(op, x, y) == [op |-> op, x |-> x, y |-> y]

\* the two bytes the chip sends for a register read, in bus order
ChipReadBytes(r, reg) == <<r[reg] % Byte, r[reg] \div Byte>>

\* the chip stores the two data bytes of a write, first byte high
ChipWrite(r, reg, first, second) ==
    IF reg \in DOMAIN r THEN [r EXCEPT ![reg] = first * Byte + second] ELSE r

---------------------------------------------------------------------------
(* Transport primitives.  m = [regs, log, addr] is threaded through the    *)
(* calls one method makes.                                                 *)

\* setRegister sending the low byte first
setRegisterSwapped(m, reg, parameter) ==
    LET highByte == parameter \div Byte
        lowByte  == parameter % Byte
    IN  [m EXCEPT
          !.regs = ChipWrite(m.regs, reg, lowByte, highByte),
          !.log  = m.log \o
                   << Ev("beginTransmission", m.addr, 0),
                      Ev("write", reg, 0),
                      Ev("write", lowByte, 0),
                      Ev("write", highByte, 0),
                      Ev("endTransmission", 0, 0),
                      Ev("delayMicroseconds", 3000, 0) >>]

setRegister(m, reg, parameter) ==
    LET highByte == parameter \div Byte
        lowByte  == parameter % Byte
    IN  [m EXCEPT
          !.regs = ChipWrite(m.regs, reg, highByte, lowByte),
          !.log  = m.log \o
                   << Ev("beginTransmission", m.addr, 0),
                      Ev("write", reg, 0),
                      Ev("write", highByte, 0),
                      Ev("write", lowByte, 0),
                      Ev("endTransmission", 0, 0),
                      Ev("delayMicroseconds", 3000, 0) >>]

\* returns the machine after the call and the value read
getRegister(m, reg) ==
    LET bytes    == ChipReadBytes(m.regs, reg)
        lowByte  == bytes[1]
        highByte == bytes[2]
    IN  [m   |-> [m EXCEPT !.log = m.log \o
                   << Ev("beginTransmission", m.addr, 0),
                      Ev("write", reg, 0),
                      Ev("endTransmission", 0, 0),
                      Ev("delayMicroseconds", 3000, 0),
                      Ev("requestFrom", m.addr, 2),
                      Ev("read", bytes[1], 0),
                      Ev("read", bytes[2], 0),
                      Ev("delayMicroseconds", 2000, 0) >>],
         raw |-> highByte * Byte + lowByte]

\* the machine a method starts from: the chip as it is, an empty transcript
Bus == [regs |-> regs, log |-> <<>>, addr |-> deviceAddress]

---------------------------------------------------------------------------
(* Methods that other methods call, as functions of the machine            *)

\* setReferenceClockType building the register from zero instead of from
\* what it read
setReferenceClockTypeFromZero(m, crystal, ref_clock) ==
    LET got  == getRegister(m, REG_AMSYSCFG)
        reg1 == SetField(0, REFCLK, crystal)
        reg2 == SetField(reg1, RCLK_EN, ref_clock)
    IN  setRegister(got.m, REG_AMSYSCFG, reg2)

\* KT0915::setReferenceClockType
setReferenceClockType(m, crystal, ref_clock) ==
    LET got  == getRegister(m, REG_AMSYSCFG)
        reg1 == SetField(got.raw, REFCLK, crystal)
        reg2 == SetField(reg1, RCLK_EN, ref_clock)
    IN  setRegister(got.m, REG_AMSYSCFG, reg2)

\* reset driving the pin high and then low
resetHighFirst(m, pin) ==
    IF pin < 0
    THEN m
    ELSE [m EXCEPT !.log = m.log \o
            << Ev("pinMode", pin, OUTPUT),
               Ev("delay", 10, 0),
               Ev("digitalWrite", pin, HIGH),
               Ev("delay", 10, 0),
               Ev("digitalWrite", pin, LOW),
               Ev("delay", 10, 0) >>]

\* KT0915::reset, for the pin held in this->resetPin
reset(m, pin) ==
    IF pin < 0
    THEN m
    ELSE [m EXCEPT !.log = m.log \o
            << Ev("pinMode", pin, OUTPUT),
               Ev("delay", 10, 0),
               Ev("digitalWrite", pin, LOW),
               Ev("delay", 10, 0),
               Ev("digitalWrite", pin, HIGH),
               Ev("delay", 10, 0) >>]

\* setFrequency writing the frequency undivided in FM mode too
setFrequencyUnscaled(m, mode, frequency, junk) ==
    IF mode = MODE_AM
    THEN LET a1 == SetField(junk, AMTUNE, 1)
             a2 == SetField(a1, AMCHAN, frequency[2])
         IN  setRegister(m, REG_AMCHAN, a2)
    ELSE LET t1 == SetField(junk, FMTUNE, 1)
             t2 == SetField(t1, FMCHAN, frequency[2])
         IN  setRegister(m, REG_TUNE, t2)

\* KT0915::setFrequency, the register write.  `junk` is what the local
\* kt09xx_tune held before its fields were assigned (it is not initialised).
setFrequency(m, mode, frequency, junk) ==
    IF mode = MODE_AM
    THEN LET a1 == SetField(junk, AMTUNE, 1)
             a2 == SetField(a1, AMCHAN, frequency[2])
         IN  setRegister(m, REG_AMCHAN, a2)
    ELSE LET t1 == SetField(junk, FMTUNE, 1)
             t2 == SetField(t1, FMCHAN, U32Div(frequency, 50)[2])
         IN  setRegister(m, REG_TUNE, t2)

---------------------------------------------------------------------------
(* The public methods, one action each                                     *)

NoResult == [op |-> "none", value |-> 0]

\* a method returning nothing has run: its traffic, its name and arguments
Done(m, op, args) ==
    /\ regs' = m.regs
    /\ log' = m.log
    /\ call' = [op |-> op, args |-> args]

Void == result' = NoResult

\* KT0915::setI2CBusAddress
SetI2CBusAddress(address) ==
    /\ deviceAddress' = address
    /\ Done(Bus, "setI2CBusAddress", <<address>>)
    /\ Void
    /\ UNCHANGED <<resetPin, currentMode, currentFrequency, currentStep,
                   minimumFrequency, maximumFrequency, currentDialMode,
                   moves>>

\* KT0915::setRegister called directly
SetRegister(reg, parameter) ==
    /\ Done(setRegister(Bus, reg, parameter), "setRegister",
            <<reg, parameter>>)
    /\ Void
    /\ UNCHANGED <<deviceAddress, resetPin, currentMode, currentFrequency,
                   currentStep, minimumFrequency, maximumFrequency,
                   currentDialMode, moves>>

\* KT0915::getRegister called directly
GetRegister(reg) ==
    LET got == getRegister(Bus, reg)
    IN  /\ Done(got.m, "getRegister", <<reg>>)
        /\ result' = [op |-> "getRegister", value |-> got.raw]
        /\ UNCHANGED <<deviceAddress, resetPin, currentMode, currentFrequency,
                       currentStep, minimumFrequency, maximumFrequency,
                       currentDialMode, moves>>

SetReferenceClockType(crystal, ref_clock) ==
    /\ Done(setReferenceClockType(Bus, crystal, ref_clock),
            "setReferenceClockType", <<crystal, ref_clock>>)
    /\ Void
    /\ UNCHANGED <<deviceAddress, resetPin, currentMode, currentFrequency,
                   currentStep, minimumFrequency, maximumFrequency,
                   currentDialMode, moves>>

Reset ==
    /\ Done(reset(Bus, resetPin), "reset", <<>>)
    /\ Void
    /\ UNCHANGED <<deviceAddress, resetPin, currentMode, currentFrequency,
                   currentStep, minimumFrequency, maximumFrequency,
                   currentDialMode, moves>>

Setup(reset_pin, OSCILLATOR_type, ref_clock) ==
    /\ resetPin' = reset_pin
    /\ Done(setReferenceClockType(reset(Bus, reset_pin),
                                  OSCILLATOR_type, ref_clock),
            "setup", <<reset_pin, OSCILLATOR_type, ref_clock>>)
    /\ Void
    /\ UNCHANGED <<deviceAddress, currentMode, currentFrequency,
                   currentStep, minimumFrequency, maximumFrequency,
                   currentDialMode, moves>>

\* the channel count taken to include both ends of the band
ChanNumInclusive(span, step, junk) ==
    IF step = 0 THEN junk ELSE (U32Div(span, step)[2] + 1) % W16

\* (maximum - minimu) / 50 / step or without the / 50, kept to 12 bits.
\* Dividing by a zero step is undefined: `junk` is then what comes out.
ChanNum(span, step, junk) ==
    IF step = 0 THEN junk ELSE U32Div(span, step)[2]

\* uf, ug, uc are the uninitialised locals' prior contents
SetTuneDialModeOn(minimu_frequency, maximum_frequency, uf, ug, uc) ==
    LET got1 == getRegister(Bus, REG_AMSYSCFG)
        m1   == setRegister(got1.m, REG_AMSYSCFG,
                            SetField(got1.raw, USERBAND, DIAL_MODE_ON))
        got2 == getRegister(m1, REG_GPIOCFG)
        m2   == setRegister(got2.m, REG_GPIOCFG,
                            SetField(got2.raw, GPIO1, 2))
        span == U32Sub(maximum_frequency, minimu_frequency)
        am   == currentMode = MODE_AM
        start == IF am THEN minimu_frequency[2]
                       ELSE U32Div(minimu_frequency, 50)[2]
        num   == IF am THEN ChanNum(span, currentStep, uc)
                       ELSE ChanNum(U32Div(span, 50), currentStep, uc)
        guard == IF am THEN 17 ELSE 29
        m3   == setRegister(m2, REG_USERSTARTCH,
                            SetField(uf, USER_START_CHAN, start))
        m4   == setRegister(m3, REG_USERGUARD,
                            SetField(ug, USER_GUARD, guard))
        m5   == setRegister(m4, REG_USERCHANNUM,
                            SetField(uc, USER_CHAN_NUM, num))
    IN  /\ currentDialMode' = DIAL_MODE_ON
        /\ Done(m5, "setTuneDialModeOn",
                <<minimu_frequency, maximum_frequency>>)
        /\ Void
        /\ UNCHANGED <<deviceAddress, resetPin, currentMode,
                       currentFrequency, currentStep, minimumFrequency,
                       maximumFrequency, moves>>

SetTuneDialModeOff ==
    LET got1 == getRegister(Bus, REG_AMSYSCFG)
        m1   == setRegister(got1.m, REG_AMSYSCFG,
                            SetField(got1.raw, USERBAND, DIAL_MODE_OFF))
        got2 == getRegister(m1, REG_GPIOCFG)
        m2   == setRegister(got2.m, REG_GPIOCFG,
                            SetField(got2.raw, GPIO1, 0))
    IN  /\ currentDialMode' = DIAL_MODE_OFF
        /\ Done(m2, "setTuneDialModeOff", <<>>)
        /\ Void
        /\ UNCHANGED <<deviceAddress, resetPin, currentMode,
                       currentFrequency, currentStep, minimumFrequency,
                       maximumFrequency, moves>>

SetVolumeDialModeOn ==
    LET got == getRegister(Bus, REG_GPIOCFG)
        m1  == setRegister(got.m, REG_GPIOCFG, SetField(got.raw, GPIO2, 2))
    IN  /\ Done(m1, "setVolumeDialModeOn", <<>>)
        /\ Void
        /\ UNCHANGED <<deviceAddress, resetPin, currentMode,
                       currentFrequency, currentStep, minimumFrequency,
                       maximumFrequency, currentDialMode, moves>>

SetVolumeDialModeOff ==
    LET got == getRegister(Bus, REG_GPIOCFG)
        m1  == setRegister(got.m, REG_GPIOCFG, SetField(got.raw, GPIO2, 0))
    IN  /\ Done(m1, "setVolumeDialModeOff", <<>>)
        /\ Void
        /\ UNCHANGED <<deviceAddress, resetPin, currentMode,
                       currentFrequency, currentStep, minimumFrequency,
                       maximumFrequency, currentDialMode, moves>>

\* setFM keeping the frequency the chip was tuned to, a multiple of 50
SetFMStoresTuned(minimum_frequency, maximum_frequency, default_frequency, step, junk) ==
    LET got == getRegister(Bus, REG_AMSYSCFG)
        r1  == SetField(got.raw, AM_FM, MODE_FM)
        r2  == SetField(r1, USERBAND, 0)
        m1  == setRegister(got.m, REG_AMSYSCFG, r2)
        m2  == setFrequency(m1, MODE_FM, default_frequency, junk)
    IN  /\ currentStep' = step
        /\ minimumFrequency' = minimum_frequency
        /\ maximumFrequency' = maximum_frequency
        /\ currentMode' = MODE_FM
        /\ currentFrequency' =
             IF default_frequency[1] # 0 THEN default_frequency
             ELSE <<0, default_frequency[2]
                       - (default_frequency[2] % 50)>>
        /\ moves' = 0
        /\ Done(m2, "setFM", <<minimum_frequency, maximum_frequency,
                            default_frequency, step>>)
        /\ Void
        /\ UNCHANGED <<deviceAddress, resetPin, currentDialMode>>

\* KT0915::setFM : store the parameters, select FM in AMSYSCFG and clear its
\* user-band bit, then tune to the default.  `junk` is setFrequency's.
SetFM(minimum_frequency, maximum_frequency, default_frequency, step, junk) ==
    LET got == getRegister(Bus, REG_AMSYSCFG)
        r1  == SetField(got.raw, AM_FM, MODE_FM)
        r2  == SetField(r1, USERBAND, 0)
        m1  == setRegister(got.m, REG_AMSYSCFG, r2)
        m2  == setFrequency(m1, MODE_FM, default_frequency, junk)
    IN  /\ currentStep' = step
        /\ minimumFrequency' = minimum_frequency
        /\ maximumFrequency' = maximum_frequency
        /\ currentMode' = MODE_FM
        /\ currentFrequency' = default_frequency
        /\ moves' = 0
        /\ Done(m2, "setFM", <<minimum_frequency, maximum_frequency,
                            default_frequency, step>>)
        /\ Void
        /\ UNCHANGED <<deviceAddress, resetPin, currentDialMode>>

\* KT0915::setAM : the same for AM
SetAM(minimum_frequency, maximum_frequency, default_frequency, step, junk) ==
    LET got == getRegister(Bus, REG_AMSYSCFG)
        r1  == SetField(got.raw, AM_FM, MODE_AM)
        r2  == SetField(r1, USERBAND, 0)
        m1  == setRegister(got.m, REG_AMSYSCFG, r2)
        m2  == setFrequency(m1, MODE_AM, default_frequency, junk)
    IN  /\ currentStep' = step
        /\ minimumFrequency' = minimum_frequency
        /\ maximumFrequency' = maximum_frequency
        /\ currentMode' = MODE_AM
        /\ currentFrequency' = default_frequency
        /\ moves' = 0
        /\ Done(m2, "setAM", <<minimum_frequency, maximum_frequency,
                            default_frequency, step>>)
        /\ Void
        /\ UNCHANGED <<deviceAddress, resetPin, currentDialMode>>

SetFrequency(frequency, junk) ==
    /\ Done(setFrequency(Bus, currentMode, frequency, junk), "setFrequency",
            <<frequency>>)
    /\ currentFrequency' = frequency
    /\ moves' = 0
    /\ Void
    /\ UNCHANGED <<deviceAddress, resetPin, currentMode, currentStep,
                   minimumFrequency, maximumFrequency, currentDialMode>>

\* frequencyUp without the test against the maximum
FrequencyUpNoWrap(junk) ==
    LET next == U32AddStep(currentFrequency, currentStep)
    IN  /\ moves < MaxMoves
        /\ moves' = moves + 1
        /\ Done(setFrequency(Bus, currentMode, next, junk), "frequencyUp",
                <<>>)
        /\ currentFrequency' = next
        /\ Void
        /\ UNCHANGED <<deviceAddress, resetPin, currentMode, currentStep,
                       minimumFrequency, maximumFrequency, currentDialMode>>

\* frequencyUp wrapping already when the sum reaches the maximum
FrequencyUpWrapAtMax(junk) ==
    LET sum  == U32AddStep(currentFrequency, currentStep)
        next == IF U32Le(maximumFrequency, sum) THEN minimumFrequency
                                                ELSE sum
    IN  /\ moves < MaxMoves
        /\ moves' = moves + 1
        /\ Done(setFrequency(Bus, currentMode, next, junk), "frequencyUp",
                <<>>)
        /\ currentFrequency' = next
        /\ Void
        /\ UNCHANGED <<deviceAddress, resetPin, currentMode, currentStep,
                       minimumFrequency, maximumFrequency, currentDialMode>>

FrequencyUp(junk) ==
    LET sum  == U32AddStep(currentFrequency, currentStep)
        next == IF U32Gt(sum, maximumFrequency) THEN minimumFrequency
                                                ELSE sum
    IN  /\ moves < MaxMoves
        /\ moves' = moves + 1
        /\ Done(setFrequency(Bus, currentMode, next, junk), "frequencyUp",
                <<>>)
        /\ currentFrequency' = next
        /\ Void
        /\ UNCHANGED <<deviceAddress, resetPin, currentMode, currentStep,
                       minimumFrequency, maximumFrequency, currentDialMode>>

FrequencyDown(junk) ==
    LET diff == U32SubStep(currentFrequency, currentStep)
        next == IF U32Lt(diff, minimumFrequency) THEN maximumFrequency
                                                 ELSE diff
    IN  /\ moves < MaxMoves
        /\ moves' = moves + 1
        /\ Done(setFrequency(Bus, currentMode, next, junk), "frequencyDown",
                <<>>)
        /\ currentFrequency' = next
        /\ Void
        /\ UNCHANGED <<deviceAddress, resetPin, currentMode, currentStep,
                       minimumFrequency, maximumFrequency, currentDialMode>>

SetStep(step) ==
    /\ currentStep' = step
    /\ Done(Bus, "setStep", <<step>>)
    /\ Void
    /\ UNCHANGED <<deviceAddress, resetPin, currentMode, currentFrequency,
                   minimumFrequency, maximumFrequency, currentDialMode,
                   moves>>

GetFrequency ==
    /\ result' = [op |-> "getFrequency", value |-> currentFrequency]
    /\ UNCHANGED <<deviceAddress, resetPin, currentMode, currentFrequency,
                   currentStep, minimumFrequency, maximumFrequency,
                   currentDialMode, regs, log, call, moves>>

---------------------------------------------------------------------------
(* Inputs                                                                  *)

\* prior contents of an uninitialised 16-bit local
Uninit == {0, 65535}

\* power-on contents of AMSYSCFG: the data-sheet default, and one with the
\* bits the driver never names set; the user-band bit is clear in both
PowerOnSysCfg == {2, 8385}

\* <<crystal, ref_clock>> given to setReferenceClockType / setup
Clocks == { <<3, 0>>, <<9, 1>>, <<255, 254>> }

\* reset_pin given to setup
Pins == { -1, 12 }

\* values written with setRegister directly
RawValues == { 0, 4660, 42330, 65535 }

BusAddresses == { KT0915_I2C_ADDRESS, 54 }

\* band limits <<minimum, maximum>>, defaults and steps of the tune methods
TuneBands == { <<U32(520), U32(1710)>>,
               <<U32(0), U32(30)>>,
               <<<<65535, 65436>>, U32Max>> }

TuneFrequencies == { U32(0), U32(525), U32(1710), U32(40000),
                     U32(87525), U32Max }

TuneSteps == { 10, 50 }

\* the same for the dial-mode specification, kept small
DialBands == { <<U32(520), U32(1710)>>,
               <<U32(64000), U32(108000)>>,
               <<U32(40000), U32(520)>> }

DialDefaults == { U32(530) }

DialSteps == { 0, 10, 50 }

---------------------------------------------------------------------------
(* Specifications                                                          *)

\* A KT0915 object with static storage: members are zero unless the class
\* gives an initialiser; the chip is at its power-on values.
Init ==
    /\ deviceAddress = KT0915_I2C_ADDRESS
    /\ resetPin = 0
    /\ currentMode = MODE_FM
    /\ currentFrequency = U32(0)
    /\ currentStep = 0
    /\ minimumFrequency = U32(0)
    /\ maximumFrequency = U32(0)
    /\ currentDialMode = DIAL_MODE_OFF
    /\ \E sys \in PowerOnSysCfg :
         regs = [r \in Registers |-> IF r = REG_AMSYSCFG THEN sys ELSE 0]
    /\ log = <<>>
    /\ call = [op |-> "new", args |-> <<>>]
    /\ result = NoResult
    /\ moves = 0

\* dial mode, clock selection and tuning, in any order
Next ==
    \/ \E c \in Clocks : SetReferenceClockType(c[1], c[2])
    \/ \E b \in DialBands, j \in Uninit :
         SetTuneDialModeOn(b[1], b[2], j, j, j)
    \/ SetTuneDialModeOff
    \/ SetVolumeDialModeOn
    \/ SetVolumeDialModeOff
    \/ \E d \in DialDefaults, s \in DialSteps, j \in Uninit :
         SetFM(U32(64000), U32(108000), d, s, j)
    \/ \E d \in DialDefaults, s \in DialSteps, j \in Uninit :
         SetAM(U32(520), U32(540), d, s, j)
    \/ \E f \in DialDefaults, j \in Uninit : SetFrequency(f, j)
    \/ \E j \in Uninit : FrequencyUp(j)
    \/ \E j \in Uninit : FrequencyDown(j)

Spec == Init /\ [][Next]_vars

\* the tune methods, with band limits, frequencies and steps of every kind
NextTune ==
    \/ \E b \in TuneBands, d \in TuneFrequencies, s \in TuneSteps,
          j \in Uninit : SetFM(b[1], b[2], d, s, j)
    \/ \E b \in TuneBands, d \in TuneFrequencies, s \in TuneSteps,
          j \in Uninit : SetAM(b[1], b[2], d, s, j)
    \/ \E f \in TuneFrequencies, j \in Uninit : SetFrequency(f, j)
    \/ \E j \in Uninit : FrequencyUp(j)
    \/ \E j \in Uninit : FrequencyDown(j)
    \/ \E s \in TuneSteps : SetStep(s)
    \/ GetFrequency

SpecTune == Init /\ [][NextTune]_vars

\* start-up and the transport primitives
NextStartup ==
    \/ \E a \in BusAddresses : SetI2CBusAddress(a)
    \/ \E r \in AllRegisters, v \in RawValues : SetRegister(r, v)
    \/ \E r \in Registers : GetRegister(r)
    \/ \E c \in Clocks : SetReferenceClockType(c[1], c[2])
    \/ Reset
    \/ \E p \in Pins, c \in Clocks : Setup(p, c[1], c[2])

SpecStartup == Init /\ [][NextStartup]_vars

---------------------------------------------------------------------------
(* Reading a transcript                                                    *)

Ops(l, i, ops) == /\ i + Len(ops) - 1 <= Len(l)
                  /\ \A k \in 1..Len(ops) : l[i + k - 1].op = ops[k]

\* the six calls of one register write, starting at l[i]
IsSetFrame(l, i) ==
    Ops(l, i, <<"beginTransmission", "write", "write", "write",
                "endTransmission", "delayMicroseconds">>)

\* the eight calls of one register read, starting at l[i]
IsGetFrame(l, i) ==
    /\ Ops(l, i, <<"beginTransmission", "write", "endTransmission",
                   "delayMicroseconds", "requestFrom", "read", "read",
                   "delayMicroseconds">>)
    /\ l[i + 4].y = 2

RECURSIVE FramesFrom(_, _)
FramesFrom(l, i) ==
    IF i > Len(l) THEN <<>>
    ELSE IF IsSetFrame(l, i)
    THEN <<[kind |-> "set", reg |-> l[i + 1].x,
            first |-> l[i + 2].x, second |-> l[i + 3].x]>>
         \o FramesFrom(l, i + 6)
    ELSE IF IsGetFrame(l, i)
    THEN <<[kind |-> "get", reg |-> l[i + 1].x,
            first |-> l[i + 5].x, second |-> l[i + 6].x]>>
         \o FramesFrom(l, i + 8)
    ELSE <<[kind |-> l[i].op, reg |-> l[i].x,
            first |-> l[i].y, second |-> 0]>>
         \o FramesFrom(l, i + 1)

\* the transcript as register writes, register reads and single other calls
Frames == FramesFrom(log, 1)

\* the register writes of the transcript, in order: <<register, value>>,
\* the value taken as first data byte high, second low
Writes ==
    LET w == SelectSeq(Frames, LAMBDA f : f.kind = "set")
    IN  [k \in 1..Len(w) |-> <<w[k].reg, w[k].first * Byte + w[k].second>>]

WrittenRegisters == {Writes[k][1] : k \in 1..Len(Writes)}

\* the pin calls of the transcript, in order
PinCalls ==
    SelectSeq(log, LAMBDA e : e.op \in {"pinMode", "digitalWrite"})

\* the bytes put on the bus, in order
BytesWritten ==
    LET w == SelectSeq(log, LAMBDA e : e.op = "write")
    IN  [k \in 1..Len(w) |-> w[k].x]

\* a uint32_t below 2^31 as a number
Small(a) == a[1] < 32768

Nat32(a) == a[1] * W16 + a[2]

InBand ==
    /\ U32Le(minimumFrequency, currentFrequency)
    /\ U32Le(currentFrequency, maximumFrequency)

---------------------------------------------------------------------------
(* Claims about tuning (checked under SpecTune)                            *)

TuneOps == {"setAM", "setFM", "setFrequency", "frequencyUp", "frequencyDown"}

Within(f, lo, hi) == U32Le(lo, f) /\ U32Le(f, hi)

\* C1, as stated: after any tune operation, with any arguments, the current
\* frequency lies within [minimumFrequency, maximumFrequency].
C1_InBandAfterAnyTune ==
    call.op \in TuneOps => InBand

\* C1, amended: with minimum <= maximum, the current frequency is at most
\* the maximum after frequencyUp and at least the minimum after
\* frequencyDown; after setAM, setFM or setFrequency it is the frequency
\* given, so it lies within the band when that frequency does.
C1_Amended ==
    /\ (call.op = "frequencyUp"
          /\ U32Le(minimumFrequency, maximumFrequency))
       => U32Le(currentFrequency, maximumFrequency)
    /\ (call.op = "frequencyDown"
          /\ U32Le(minimumFrequency, maximumFrequency))
       => U32Le(minimumFrequency, currentFrequency)
    /\ call.op \in {"setAM", "setFM"}
       => /\ currentFrequency = call.args[3]
          /\ Within(call.args[3], call.args[1], call.args[2]) => InBand
    /\ call.op = "setFrequency"
       => /\ currentFrequency = call.args[1]
          /\ Within(call.args[1], minimumFrequency, maximumFrequency)
             => InBand

\* frequencyUp has wrapped from the top of a band to its bottom
C1_Witness ==
    /\ call.op = "frequencyUp"
    /\ U32Lt(minimumFrequency, maximumFrequency)
    /\ currentFrequency = minimumFrequency
    /\ currentStep > 0

\* C2: from a current frequency f within [min, max] and with a step s > 0,
\* frequencyUp sets the current frequency to min when the 32-bit sum f + s
\* exceeds max and to that sum otherwise, and never leaves it above max.
C2_FrequencyUp ==
    [][ call'.op = "frequencyUp" /\ moves' = moves + 1
        /\ InBand /\ currentStep > 0
        => LET f   == currentFrequency
               sum == IF f[1] < 32767
                      THEN U32(Nat32(f) + currentStep)
                      ELSE U32AddStep(f, currentStep)
           IN  /\ U32Gt(sum, maximumFrequency)
                  => currentFrequency' = minimumFrequency
               /\ ~U32Gt(sum, maximumFrequency)
                  => currentFrequency' = sum
               /\ U32Le(currentFrequency', maximumFrequency) ]_vars

\* frequencyUp has stepped within the band, and has wrapped to the minimum
C2_Witness ==
    /\ call.op = "frequencyUp"
    /\ currentStep = 10
    /\ minimumFrequency = U32(520)
    /\ maximumFrequency = U32(1710)
    /\ currentFrequency = U32(520)
    /\ moves = 1

\* f - s as numbers is below min: s exceeds f, or the difference is below
DiffBelowMin(f, s, min) ==
    \/ f[1] = 0 /\ f[2] < s
    \/ U32Lt(U32SubStep(f, s), min)

\* C3: from a current frequency f within [min, max] and with a step s > 0,
\* frequencyDown sets the current frequency to max when f - s < min as
\* numbers (s > f included), and to f - s otherwise.
C3_FrequencyDown ==
    [][ call'.op = "frequencyDown" /\ moves' = moves + 1
        /\ InBand /\ currentStep > 0
        => IF DiffBelowMin(currentFrequency, currentStep, minimumFrequency)
           THEN currentFrequency' = maximumFrequency
           ELSE currentFrequency' = U32SubStep(currentFrequency, currentStep)
      ]_vars

\* C5: getFrequency called after setAM or setFM returns the default
\* frequency that was given, whatever it is.
C5_DefaultReadBack ==
    (call.op \in {"setAM", "setFM"} /\ result.op = "getFrequency")
    => result.value = call.args[3]

\* setFM with a default that is no multiple of 50 and lies outside the band,
\* then getFrequency
C5_Witness ==
    /\ call.op = "setFM"
    /\ result.op = "getFrequency"
    /\ result.value = U32(87525)
    /\ ~Within(call.args[3], call.args[1], call.args[2])

\* what a 15-bit and a 12-bit channel field keep of a value
AMChannelOf(f) == f[2] % 32768

FMChannelOf(f) ==
    IF Small(f) THEN (Nat32(f) \div 50) % 4096
                ELSE U32Div(f, 50)[2] % 4096

\* C6: setFrequency(frequency) in AM mode writes AMCHAN only, with AMTUNE = 1
\* and the channel field assigned frequency; in FM mode it writes TUNE only,
\* with FMTUNE = 1 and the channel field assigned frequency / 50; in both
\* the current frequency becomes frequency.  (A channel field keeps the low
\* 15, respectively 12, bits of what it is assigned.)
C6_SetFrequency ==
    call.op = "setFrequency"
    => LET f == call.args[1]
       IN  /\ currentFrequency = f
           /\ Len(Writes) = 1
           /\ currentMode = MODE_AM
              => /\ Writes[1][1] = REG_AMCHAN
                 /\ Field(Writes[1][2], AMTUNE) = 1
                 /\ Field(Writes[1][2], AMCHAN) = AMChannelOf(f)
                 /\ (f[1] = 0 /\ f[2] < 32768)
                    => Field(Writes[1][2], AMCHAN) = f[2]
                 /\ REG_TUNE \notin WrittenRegisters
           /\ currentMode # MODE_AM
              => /\ Writes[1][1] = REG_TUNE
                 /\ Field(Writes[1][2], FMTUNE) = 1
                 /\ Field(Writes[1][2], FMCHAN) = FMChannelOf(f)
                 /\ REG_AMCHAN \notin WrittenRegisters

\* an FM tune to 87525 has written channel 1750
C6_WitnessFM ==
    /\ call.op = "setFrequency"
    /\ currentMode = MODE_FM
    /\ call.args[1] = U32(87525)
    /\ Len(Writes) = 1
    /\ Field(Writes[1][2], FMCHAN) = 1750

---------------------------------------------------------------------------
(* Claims about dial mode (checked under Spec)                             *)

\* (max - min) as the driver forms it, then divided, as numbers where the
\* operands are below 2^31
SpanOf(min, max) ==
    IF Small(min) /\ Small(max) /\ U32Le(min, max)
    THEN U32(Nat32(max) - Nat32(min))
    ELSE U32Sub(max, min)

QuotientOf(a, d) ==
    IF Small(a) THEN Nat32(a) \div d ELSE Nat32(U32Div(a, d))

\* C7: setTuneDialModeOn(min, max) sets the user-band bit of AMSYSCFG and
\* GPIO1 = 2, then writes the user start channel, guard and channel count:
\* in AM mode min, 0x0011 and (max - min) / step; in FM mode min / 50,
\* 0x001D and ((max - min) / 50) / step, with integer division and the
\* current step (a non-zero step; each field keeps its low 15, 9 and 12
\* bits).  AM 520..1710 with step 10 gives 119.
C7_SetTuneDialModeOn ==
    call.op = "setTuneDialModeOn"
    => LET min  == call.args[1]
           max  == call.args[2]
           span == SpanOf(min, max)
           w    == Writes
       IN  /\ Len(w) = 5
           /\ w[1][1] = REG_AMSYSCFG /\ Field(w[1][2], USERBAND) = 1
           /\ Field(regs[REG_AMSYSCFG], USERBAND) = 1
           /\ w[2][1] = REG_GPIOCFG /\ Field(w[2][2], GPIO1) = 2
           /\ Field(regs[REG_GPIOCFG], GPIO1) = 2
           /\ w[3][1] = REG_USERSTARTCH
           /\ w[4][1] = REG_USERGUARD
           /\ w[5][1] = REG_USERCHANNUM
           /\ currentMode = MODE_AM
              => /\ Field(w[3][2], USER_START_CHAN) = min[2] % 32768
                 /\ Field(w[4][2], USER_GUARD) = 17
                 /\ currentStep # 0
                    => Field(w[5][2], USER_CHAN_NUM)
                         = QuotientOf(span, currentStep) % 4096
           /\ currentMode # MODE_AM
              => /\ Field(w[3][2], USER_START_CHAN)
                      = QuotientOf(min, 50) % 32768
                 /\ Field(w[4][2], USER_GUARD) = 29
                 /\ currentStep # 0
                    => Field(w[5][2], USER_CHAN_NUM)
                         = QuotientOf(U32(QuotientOf(span, 50)), currentStep)
                           % 4096
           /\ (currentMode = MODE_AM /\ min = U32(520) /\ max = U32(1710)
                 /\ currentStep = 10)
              => /\ Field(w[3][2], USER_START_CHAN) = 520
                 /\ Field(w[5][2], USER_CHAN_NUM) = 119

\* the literal AM case: 520..1710 with step 10
C7_Witness ==
    /\ call.op = "setTuneDialModeOn"
    /\ currentMode = MODE_AM
    /\ currentStep = 10
    /\ call.args = <<U32(520), U32(1710)>>
    /\ Len(Writes) = 5
    /\ Field(Writes[5][2], USER_CHAN_NUM) = 119

\* C10: the dial-mode flag is on exactly when the user-band bit of the
\* system-config register is 1.
C10_DialFlagAgrees ==
    (currentDialMode = DIAL_MODE_ON)
    <=> (Field(regs[REG_AMSYSCFG], USERBAND) = 1)

---------------------------------------------------------------------------
(* Claims about start-up and transport (checked under SpecStartup)         *)

\* the system-config register with the two clock fields cleared
ClockFieldsCleared(raw) == SetField(SetField(raw, REFCLK, 0), RCLK_EN, 0)

\* C4: setReferenceClockType(crystal, ref_clock) changes only the REFCLK and
\* RCLK_EN fields of the system-config register; every other bit keeps its
\* value, and no other register is written.
C4_ClockTypeFrame ==
    [][ call'.op = "setReferenceClockType"
        => LET before == regs[REG_AMSYSCFG]
               after  == regs'[REG_AMSYSCFG]
           IN  /\ Field(after, REFCLK) = call'.args[1] % 16
               /\ Field(after, RCLK_EN) = call'.args[2] % 2
               /\ Field(after, AM_FM) = Field(before, AM_FM)
               /\ Field(after, USERBAND) = Field(before, USERBAND)
               /\ ClockFieldsCleared(after) = ClockFieldsCleared(before)
               /\ \A r \in Registers \ {REG_AMSYSCFG} : regs'[r] = regs[r]
               /\ Len(FramesFrom(log', 1)) = 2
               /\ FramesFrom(log', 1)[1].kind = "get"
               /\ FramesFrom(log', 1)[1].reg = REG_AMSYSCFG
               /\ FramesFrom(log', 1)[2].kind = "set"
               /\ FramesFrom(log', 1)[2].reg = REG_AMSYSCFG ]_vars

\* the clock fields were set in a register whose other bits were all ones
C4_Witness ==
    /\ call.op = "setReferenceClockType"
    /\ call.args = <<3, 0>>
    /\ regs[REG_AMSYSCFG] = 58367

PinSequence(pin) ==
    IF pin < 0 THEN <<>>
    ELSE << Ev("pinMode", pin, OUTPUT),
            Ev("digitalWrite", pin, LOW),
            Ev("digitalWrite", pin, HIGH) >>

\* position of the last pin call and of the first bus call in the log
LastPinCall ==
    LET at == {i \in 1..Len(log) : log[i].op \in {"pinMode", "digitalWrite"}}
    IN  IF at = {} THEN 0 ELSE CHOOSE i \in at : \A j \in at : j <= i

FirstBusCall ==
    LET at == {i \in 1..Len(log) : log[i].op = "beginTransmission"}
    IN  IF at = {} THEN Len(log) + 1
        ELSE CHOOSE i \in at : \A j \in at : i <= j

\* C8: reset() makes no pin call when the reset pin is negative, and
\* otherwise exactly pinMode(OUTPUT), digitalWrite(LOW), digitalWrite(HIGH)
\* in this order; setup() records the pin before reset() runs and runs
\* setReferenceClockType after it.
C8_ResetAndSetup ==
    /\ call.op = "reset"
       => /\ PinCalls = PinSequence(resetPin)
          /\ resetPin < 0 => log = <<>>
    /\ call.op = "setup"
       => /\ resetPin = call.args[1]
          /\ PinCalls = PinSequence(call.args[1])
          /\ LastPinCall < FirstBusCall
          /\ Len(Writes) = 1
          /\ Writes[1][1] = REG_AMSYSCFG
          /\ Field(Writes[1][2], REFCLK) = call.args[2] % 16

\* setup(12, ...) has pulsed pin 12 and then set the clock
C8_WitnessSetup ==
    /\ call.op = "setup"
    /\ call.args[1] = 12
    /\ Len(PinCalls) = 3
    /\ Len(Writes) = 1

\* C9: setRegister(reg, value) puts on the bus the register address, then
\* the value's high byte, then its low byte; getRegister(reg) sends the
\* register address in a closed write transaction, then requests 2 bytes and
\* returns first byte + 256 * second byte.
C9_ByteOrder ==
    /\ call.op = "setRegister"
       => /\ BytesWritten = << call.args[1],
                               call.args[2] \div 256,
                               call.args[2] % 256 >>
          /\ Len(log) = 6 /\ IsSetFrame(log, 1)
    /\ call.op = "getRegister"
       => /\ Len(log) = 8 /\ IsGetFrame(log, 1)
          /\ log[2].x = call.args[1]
          /\ log[5].y = 2
          /\ result.op = "getRegister"
          /\ result.value = log[6].x + 256 * log[7].x
    /\ \A k \in 1..Len(Frames) :
         Frames[k].kind \in {"set", "get", "pinMode", "digitalWrite", "delay"}

\* a direct write of 0x1234 has put 0x12 and then 0x34 on the bus
C9_WitnessWrite ==
    /\ call.op = "setRegister"
    /\ call.args[2] = 4660
    /\ BytesWritten = <<call.args[1], 18, 52>>

====
